---- MODULE Spec2Model ----
(***************************************************************************)
(* GraphQL Factory page: the generation orchestrator (GraphQLFactoryPage), *)
(* the data-source form, the schema viewer and the generation flow.        *)
(*                                                                         *)
(* Strings that the code trims or tests for emptiness are sequences of     *)
(* one-character strings; messages the code only concatenates are TLA+     *)
(* strings.  A value of type string | null | undefined is NULL or          *)
(* Some(s).                                                                *)
(***************************************************************************)
EXTENDS Integers, Sequences, FiniteSets, TLC

VARIABLES
    isLoading,                 \* page: useState(false)
    generatedSchema,           \* page: useState<string | null>(null)
    exampleQueriesMutations,   \* page: useState<string | null>(null)
    error,                     \* page: useState<string | null>(null)
    activeTab,                 \* page: useState("schema")
    lastFormValues,            \* page: useState<DataSourceFormValues | null>(null)
    isEditing,                 \* schema viewer: useState(false)
    editedSchemaContent,       \* schema viewer: useState<string>("")
    calls,                     \* generateGraphQLSchema calls awaited by a handler, oldest first
    toasts,                    \* toast() calls made by the last step, in order
    event                      \* the handler step taken last

vars == <<isLoading, generatedSchema, exampleQueriesMutations, error, activeTab,
          lastFormValues, isEditing, editedSchemaContent, calls, toasts, event>>

\* The fields the specification calls SessionState, as the page holds them.
session == <<isLoading, generatedSchema, exampleQueriesMutations, error, lastFormValues>>

----------------------------------------------------------------------------
\* Bounds

MaxLen == 1
MaxInFlight == 2

----------------------------------------------------------------------------
\* Values

NULL == <<>>
Some(v) == <<v>>
Val(o) == o[1]

Char == {"a", " ", "#"}
Text == UNION {[1..n -> Char] : n \in 0..MaxLen}

RECURSIVE TrimStart(_)
TrimStart(s) == IF s # <<>> /\ Head(s) = " " THEN TrimStart(Tail(s)) ELSE s

RECURSIVE TrimEnd(_)
TrimEnd(s) == IF s # <<>> /\ s[Len(s)] = " " THEN TrimEnd(SubSeq(s, 1, Len(s) - 1)) ELSE s

\* String.prototype.trim
Trim(s) == TrimEnd(TrimStart(s))

\* JavaScript truthiness of a string | null | undefined
Truthy(o) == o # NULL /\ Val(o) # <<>>

\* x && x.trim() !== ""
NonBlank(o) == Truthy(o) /\ Trim(Val(o)) # <<>>

\* a || b, for string | null | undefined operands
OrElse(a, b) == IF Truthy(a) THEN a ELSE b

DATA_SOURCE_TYPES ==
    {"PostgreSQL", "MySQL", "SQL Server", "Oracle", "MongoDB", "Salesforce", "Other"}

----------------------------------------------------------------------------
\* Inputs

\* What the user can put in the form: the select offers DATA_SOURCE_TYPES.
FormValues ==
    [dataSourceType : {"PostgreSQL", "Other"},
     connectionString : {"", "postgres://x"},
     objectIdentifier : {<<>>, <<" ">>, <<"a">>}]

\* What the prompt call inside the flow can do: reject with an Error, reject
\* with a value that is not an Error, return no output, or return an output.
PromptRejections ==
    { [kind |-> "reject", isError |-> TRUE, message |-> "network timeout"],
      [kind |-> "reject", isError |-> FALSE, message |-> ""] }

PromptOutputs(texts) ==
    { [kind |-> "output", output |-> NULL] } \cup
    { [kind |-> "output",
       output |-> Some([graphqlSchema |-> g, exampleQueriesMutations |-> x])] :
         g \in {NULL} \cup {Some(t) : t \in texts},
         x \in {NULL} \cup {Some(t) : t \in texts} }

PromptBehaviours(texts) == PromptRejections \cup PromptOutputs(texts)

\* The inputs of the unguarded specification: one string of each kind the
\* handlers tell apart (empty, blank, not blank) and one form submission
\* of each outcome.
SampleTexts == {<<>>, <<" ">>, <<"a">>}

SampleFormValues ==
    [dataSourceType : {"PostgreSQL"},
     connectionString : {"postgres://x"},
     objectIdentifier : {<<>>, <<"a">>}]

----------------------------------------------------------------------------
\* generateGraphQLSchemaFlow

\* The flow without the check of output: no output is returned as an empty result
generateGraphQLSchemaFlowAcceptsNoOutput(input, behaviour) ==
    IF behaviour.kind = "reject"
      THEN [kind |-> "reject", isError |-> behaviour.isError, message |-> behaviour.message]
    ELSE IF behaviour.output = NULL
      THEN [kind |-> "resolve",
            result |-> [graphqlSchema |-> OrElse(input.editedSchema, Some(<<>>)),
                        exampleQueriesMutations |-> NULL]]
    ELSE LET output == Val(behaviour.output)
             finalSchema == IF input.editedSchema # NULL
                              THEN input.editedSchema
                              ELSE OrElse(output.graphqlSchema, Some(<<>>))
         IN  [kind |-> "resolve",
              result |-> [graphqlSchema |-> finalSchema,
                          exampleQueriesMutations |-> output.exampleQueriesMutations]]

\* The flow without the safeguard on editedSchema: it returns what the prompt returned
generateGraphQLSchemaFlowTrustsPrompt(input, behaviour) ==
    IF behaviour.kind = "reject"
      THEN [kind |-> "reject", isError |-> behaviour.isError, message |-> behaviour.message]
    ELSE IF behaviour.output = NULL
      THEN [kind |-> "reject", isError |-> TRUE, message |-> "AI did not return any output."]
    ELSE LET output == Val(behaviour.output)
         IN  [kind |-> "resolve",
              result |-> [graphqlSchema |-> OrElse(output.graphqlSchema, Some(<<>>)),
                          exampleQueriesMutations |-> output.exampleQueriesMutations]]

generateGraphQLSchemaFlow(input, behaviour) ==
    IF behaviour.kind = "reject"
      THEN [kind |-> "reject", isError |-> behaviour.isError, message |-> behaviour.message]
    ELSE IF behaviour.output = NULL
      THEN [kind |-> "reject", isError |-> TRUE, message |-> "AI did not return any output."]
    ELSE LET output == Val(behaviour.output)
             finalSchema == IF input.editedSchema # NULL
                              THEN input.editedSchema
                              ELSE OrElse(output.graphqlSchema, Some(<<>>))
         IN  [kind |-> "resolve",
              result |-> [graphqlSchema |-> finalSchema,
                          exampleQueriesMutations |-> output.exampleQueriesMutations]]

----------------------------------------------------------------------------
\* Schema viewer: effect on [schema]

\* React.useEffect(..., [schema]) runs after a render in which schema changed.
SchemaEffect(oldSchema, newSchema, draft) ==
    IF newSchema = oldSchema THEN draft
    ELSE IF newSchema # NULL THEN Val(newSchema) ELSE <<>>

----------------------------------------------------------------------------
Init ==
    /\ isLoading = FALSE
    /\ generatedSchema = NULL
    /\ exampleQueriesMutations = NULL
    /\ error = NULL
    /\ activeTab = "schema"
    /\ lastFormValues = NULL
    /\ isEditing = FALSE
    /\ editedSchemaContent = <<>>
    /\ calls = <<>>
    /\ toasts = <<>>
    /\ event = [op |-> "init"]

----------------------------------------------------------------------------
\* Page (GraphQLFactoryPage): notifications

Toast(variant, title, description) ==
    [variant |-> variant, title |-> title, description |-> description]

\* handleFormSubmit: hasSchema, hasExamples and toastDescription
SubmitToastDescription(result) ==
    LET hasSchema == NonBlank(result.graphqlSchema)
        hasExamples == NonBlank(result.exampleQueriesMutations)
    IN  IF hasSchema /\ hasExamples
          THEN "GraphQL schema and example operations generated successfully."
        ELSE IF hasSchema /\ ~hasExamples
          THEN "GraphQL schema generated. No example operations were provided for it."
        ELSE IF ~hasSchema /\ hasExamples
          THEN "Example operations generated, but the schema was empty. This is unexpected."
        ELSE IF result.graphqlSchema = Some(<<>>) /\ Truthy(result.exampleQueriesMutations)
          THEN "Schema is empty, but example operations were generated. This might indicate an issue."
        ELSE IF result.graphqlSchema = Some(<<>>)
          THEN "The AI returned an empty schema. Try adjusting your input."
        ELSE "Process complete. The AI did not return a schema. Example operations cannot be generated without a schema."

\* handleSchemaEditAndRegenerate: description of the "API Examples Regenerated" toast
RegenerateToastDescription(result) ==
    IF NonBlank(result.exampleQueriesMutations)
      THEN "Example operations regenerated based on your edited schema."
      ELSE "No example operations were generated for the edited schema."

\* The message of the failure dropped
SubmitErrorMessageGeneric(err) == "An unknown error occurred."

\* err instanceof Error ? err.message : <generic>
SubmitErrorMessage(err) ==
    IF err.isError THEN err.message ELSE "An unknown error occurred."

RegenerateErrorMessage(err) ==
    IF err.isError THEN err.message ELSE "An unknown error occurred during regeneration."

\* setError(`Failed to generate schema: ${errorMessage}`)
SubmitErrorText(errorMessage) == "Failed to generate schema: " \o errorMessage

\* setError(`Failed to regenerate API examples: ${errorMessage}`)
RegenerateErrorText(errorMessage) == "Failed to regenerate API examples: " \o errorMessage

----------------------------------------------------------------------------
\* Page: what a resolved call stores

\* setGeneratedSchema(result.graphqlSchema || "")
SubmitStoredSchema(result) == OrElse(result.graphqlSchema, Some(<<>>))

\* setGeneratedSchema(result.graphqlSchema || editedSchema)
RegenerateStoredSchema(result, editedSchema) == OrElse(result.graphqlSchema, Some(editedSchema))

\* The examples stored as returned, an empty text included
StoredExamplesVerbatim(result) == result.exampleQueriesMutations

\* setExampleQueriesMutations(result.exampleQueriesMutations || null)
StoredExamples(result) == OrElse(result.exampleQueriesMutations, NULL)

----------------------------------------------------------------------------
\* Gateway calls in flight

\* A call a handler is awaiting.  superseded records that a later call was
\* issued while this one was outstanding; unedited records that the call
\* carries as editedSchema exactly the schema stored when it was issued.
Call(handler, input) ==
    [handler |-> handler, input |-> input, superseded |-> FALSE,
     unedited |-> (input.editedSchema # NULL /\ input.editedSchema = generatedSchema)]

Supersede(cs) == [i \in DOMAIN cs |-> [cs[i] EXCEPT !.superseded = TRUE]]

Issue(handler, input) == Append(Supersede(calls), Call(handler, input))

Remove(cs, i) == SubSeq(cs, 1, i - 1) \o SubSeq(cs, i + 1, Len(cs))

\* The schema viewer re-renders with the new schema prop and runs its effect.
ViewerRerender ==
    editedSchemaContent' = SchemaEffect(generatedSchema, generatedSchema', editedSchemaContent)

----------------------------------------------------------------------------
\* Page: handleFormSubmit

\* handleFormSubmit without setExampleQueriesMutations(null)
handleFormSubmitKeepsExamples(values) ==
    /\ Len(calls) < MaxInFlight
    /\ isLoading' = TRUE
    /\ error' = NULL
    /\ generatedSchema' = NULL
    /\ lastFormValues' = Some(values)
    /\ calls' = Issue("handleFormSubmit",
                      [dataSourceType |-> values.dataSourceType,
                       connectionString |-> values.connectionString,
                       objectIdentifier |-> values.objectIdentifier,
                       editedSchema |-> NULL])
    /\ toasts' = <<>>
    /\ UNCHANGED <<activeTab, exampleQueriesMutations>>

\* handleFormSubmit without setError(null)
handleFormSubmitKeepsError(values) ==
    /\ Len(calls) < MaxInFlight
    /\ isLoading' = TRUE
    /\ generatedSchema' = NULL
    /\ exampleQueriesMutations' = NULL
    /\ lastFormValues' = Some(values)
    /\ calls' = Issue("handleFormSubmit",
                      [dataSourceType |-> values.dataSourceType,
                       connectionString |-> values.connectionString,
                       objectIdentifier |-> values.objectIdentifier,
                       editedSchema |-> NULL])
    /\ toasts' = <<>>
    /\ UNCHANGED <<activeTab, error>>

\* handleFormSubmit(values), from its first statement to the await
handleFormSubmit(values) ==
    /\ Len(calls) < MaxInFlight
    /\ isLoading' = TRUE
    /\ error' = NULL
    /\ generatedSchema' = NULL
    /\ exampleQueriesMutations' = NULL
    /\ lastFormValues' = Some(values)
    /\ calls' = Issue("handleFormSubmit",
                      [dataSourceType |-> values.dataSourceType,
                       connectionString |-> values.connectionString,
                       objectIdentifier |-> values.objectIdentifier,
                       editedSchema |-> NULL])
    /\ toasts' = <<>>
    /\ UNCHANGED activeTab

\* The try body without the finally block's setIsLoading(false)
handleFormSubmitResolvedStaysLoading(call, result) ==
    /\ generatedSchema' = SubmitStoredSchema(result)
    /\ exampleQueriesMutations' = StoredExamples(result)
    /\ toasts' = <<Toast("default", "Generation Complete", SubmitToastDescription(result))>>
    /\ activeTab' = IF NonBlank(result.exampleQueriesMutations) THEN "explorer" ELSE "schema"
    /\ UNCHANGED <<isLoading, error, lastFormValues>>

\* handleFormSubmit after the await resolved with result: try body and finally
handleFormSubmitResolved(call, result) ==
    /\ generatedSchema' = SubmitStoredSchema(result)
    /\ exampleQueriesMutations' = StoredExamples(result)
    /\ toasts' = <<Toast("default", "Generation Complete", SubmitToastDescription(result))>>
    /\ activeTab' = IF NonBlank(result.exampleQueriesMutations) THEN "explorer" ELSE "schema"
    /\ isLoading' = FALSE
    /\ UNCHANGED <<error, lastFormValues>>

\* The catch block clearing lastFormValues as well
handleFormSubmitRejectedForgetsRequest(call, err) ==
    /\ error' = Some(SubmitErrorText(SubmitErrorMessage(err)))
    /\ generatedSchema' = NULL
    /\ exampleQueriesMutations' = NULL
    /\ toasts' = <<Toast("destructive", "Schema Generation Failed", SubmitErrorMessage(err))>>
    /\ activeTab' = "schema"
    /\ isLoading' = FALSE
    /\ lastFormValues' = NULL

\* The catch block without setError
handleFormSubmitRejectedSetsNoError(call, err) ==
    /\ generatedSchema' = NULL
    /\ exampleQueriesMutations' = NULL
    /\ toasts' = <<Toast("destructive", "Schema Generation Failed", SubmitErrorMessage(err))>>
    /\ activeTab' = "schema"
    /\ isLoading' = FALSE
    /\ UNCHANGED <<error, lastFormValues>>

\* The catch block without setGeneratedSchema(null) and setExampleQueriesMutations(null)
handleFormSubmitRejectedKeepsResults(call, err) ==
    /\ error' = Some(SubmitErrorText(SubmitErrorMessage(err)))
    /\ toasts' = <<Toast("destructive", "Schema Generation Failed", SubmitErrorMessage(err))>>
    /\ activeTab' = "schema"
    /\ isLoading' = FALSE
    /\ UNCHANGED <<generatedSchema, exampleQueriesMutations, lastFormValues>>

\* handleFormSubmit after the await rejected with err: catch block and finally
handleFormSubmitRejected(call, err) ==
    /\ error' = Some(SubmitErrorText(SubmitErrorMessage(err)))
    /\ generatedSchema' = NULL
    /\ exampleQueriesMutations' = NULL
    /\ toasts' = <<Toast("destructive", "Schema Generation Failed", SubmitErrorMessage(err))>>
    /\ activeTab' = "schema"
    /\ isLoading' = FALSE
    /\ UNCHANGED lastFormValues

----------------------------------------------------------------------------
\* Page: handleSchemaEditAndRegenerate

MissingContextToast ==
    Toast("destructive", "Cannot Regenerate Examples",
          "Initial data source information is missing. Please submit the form first.")

\* if (!lastFormValues) { toast(...); return; }
handleSchemaEditAndRegenerateRejects == lastFormValues = NULL

\* handleSchemaEditAndRegenerate building its input without lastFormValues.objectIdentifier
handleSchemaEditAndRegenerateDropsObjectIdentifier(editedSchema) ==
    /\ ~handleSchemaEditAndRegenerateRejects
    /\ Len(calls) < MaxInFlight
    /\ isLoading' = TRUE
    /\ error' = NULL
    /\ generatedSchema' = Some(editedSchema)
    /\ exampleQueriesMutations' = NULL
    /\ calls' = Issue("handleSchemaEditAndRegenerate",
                      [dataSourceType |-> Val(lastFormValues).dataSourceType,
                       connectionString |-> Val(lastFormValues).connectionString,
                       objectIdentifier |-> <<>>,
                       editedSchema |-> Some(editedSchema)])
    /\ toasts' = <<>>
    /\ UNCHANGED <<activeTab, lastFormValues>>

\* handleSchemaEditAndRegenerate without setError(null)
handleSchemaEditAndRegenerateKeepsError(editedSchema) ==
    /\ ~handleSchemaEditAndRegenerateRejects
    /\ Len(calls) < MaxInFlight
    /\ isLoading' = TRUE
    /\ generatedSchema' = Some(editedSchema)
    /\ exampleQueriesMutations' = NULL
    /\ calls' = Issue("handleSchemaEditAndRegenerate",
                      [dataSourceType |-> Val(lastFormValues).dataSourceType,
                       connectionString |-> Val(lastFormValues).connectionString,
                       objectIdentifier |-> Val(lastFormValues).objectIdentifier,
                       editedSchema |-> Some(editedSchema)])
    /\ toasts' = <<>>
    /\ UNCHANGED <<activeTab, lastFormValues, error>>

\* handleSchemaEditAndRegenerate without the optimistic setGeneratedSchema(editedSchema)
handleSchemaEditAndRegenerateNotOptimistic(editedSchema) ==
    /\ ~handleSchemaEditAndRegenerateRejects
    /\ Len(calls) < MaxInFlight
    /\ isLoading' = TRUE
    /\ error' = NULL
    /\ exampleQueriesMutations' = NULL
    /\ calls' = Issue("handleSchemaEditAndRegenerate",
                      [dataSourceType |-> Val(lastFormValues).dataSourceType,
                       connectionString |-> Val(lastFormValues).connectionString,
                       objectIdentifier |-> Val(lastFormValues).objectIdentifier,
                       editedSchema |-> Some(editedSchema)])
    /\ toasts' = <<>>
    /\ UNCHANGED <<activeTab, lastFormValues, generatedSchema>>

\* handleSchemaEditAndRegenerate(editedSchema), from the check of lastFormValues to the await
handleSchemaEditAndRegenerate(editedSchema) ==
    /\ ~handleSchemaEditAndRegenerateRejects
    /\ Len(calls) < MaxInFlight
    /\ isLoading' = TRUE
    /\ error' = NULL
    /\ generatedSchema' = Some(editedSchema)
    /\ exampleQueriesMutations' = NULL
    /\ calls' = Issue("handleSchemaEditAndRegenerate",
                      [dataSourceType |-> Val(lastFormValues).dataSourceType,
                       connectionString |-> Val(lastFormValues).connectionString,
                       objectIdentifier |-> Val(lastFormValues).objectIdentifier,
                       editedSchema |-> Some(editedSchema)])
    /\ toasts' = <<>>
    /\ UNCHANGED <<activeTab, lastFormValues>>

\* handleSchemaEditAndRegenerate after the await resolved with result
handleSchemaEditAndRegenerateResolved(call, result) ==
    /\ generatedSchema' = RegenerateStoredSchema(result, Val(call.input.editedSchema))
    /\ exampleQueriesMutations' = StoredExamples(result)
    /\ toasts' = <<Toast("default", "API Examples Regenerated", RegenerateToastDescription(result))>>
    /\ activeTab' = "explorer"
    /\ isLoading' = FALSE
    /\ UNCHANGED <<error, lastFormValues>>

\* The catch block switching to the schema tab as handleFormSubmit's does
handleSchemaEditAndRegenerateRejectedShowsSchema(call, err) ==
    /\ error' = Some(RegenerateErrorText(RegenerateErrorMessage(err)))
    /\ exampleQueriesMutations' = NULL
    /\ toasts' = <<Toast("destructive", "API Example Regeneration Failed", RegenerateErrorMessage(err))>>
    /\ activeTab' = "schema"
    /\ isLoading' = FALSE
    /\ UNCHANGED <<generatedSchema, lastFormValues>>

\* The catch block reverting the optimistic schema
handleSchemaEditAndRegenerateRejectedReverts(call, err) ==
    /\ error' = Some(RegenerateErrorText(RegenerateErrorMessage(err)))
    /\ generatedSchema' = NULL
    /\ exampleQueriesMutations' = NULL
    /\ toasts' = <<Toast("destructive", "API Example Regeneration Failed", RegenerateErrorMessage(err))>>
    /\ activeTab' = "explorer"
    /\ isLoading' = FALSE
    /\ UNCHANGED lastFormValues

\* handleSchemaEditAndRegenerate after the await rejected with err
handleSchemaEditAndRegenerateRejected(call, err) ==
    /\ error' = Some(RegenerateErrorText(RegenerateErrorMessage(err)))
    /\ exampleQueriesMutations' = NULL
    /\ toasts' = <<Toast("destructive", "API Example Regeneration Failed", RegenerateErrorMessage(err))>>
    /\ activeTab' = "explorer"
    /\ isLoading' = FALSE
    /\ UNCHANGED <<generatedSchema, lastFormValues>>

\* The missing context reported through the error field as well
handleSchemaEditAndRegenerateMissingContextSetsError ==
    /\ handleSchemaEditAndRegenerateRejects
    /\ toasts' = <<MissingContextToast>>
    /\ error' = Some(MissingContextToast.description)
    /\ UNCHANGED <<isLoading, generatedSchema, exampleQueriesMutations,
                   activeTab, lastFormValues, calls>>

\* handleSchemaEditAndRegenerate when lastFormValues is null: toast and return
handleSchemaEditAndRegenerateMissingContext ==
    /\ handleSchemaEditAndRegenerateRejects
    /\ toasts' = <<MissingContextToast>>
    /\ UNCHANGED <<isLoading, generatedSchema, exampleQueriesMutations, error,
                   activeTab, lastFormValues, calls>>

----------------------------------------------------------------------------
\* Data-source form

\* zodResolver(dataSourceFormSchema)
dataSourceFormSchema(values) ==
    /\ values.dataSourceType \in DATA_SOURCE_TYPES
    /\ values.connectionString # ""

\* handleActualSubmit: isObjectIdentifierRequired
isObjectIdentifierRequired(dataSourceType) ==
    dataSourceType \in {"PostgreSQL", "MySQL", "SQL Server", "Oracle", "Salesforce", "MongoDB"}

\* The condition without the test of the trimmed value
ObjectIdentifierMissingEmptyOnly(values) ==
    /\ isObjectIdentifierRequired(values.dataSourceType)
    /\ values.objectIdentifier = <<>>

\* handleActualSubmit: the condition under which it sets the field error and returns
ObjectIdentifierMissing(values) ==
    /\ isObjectIdentifierRequired(values.dataSourceType)
    /\ (values.objectIdentifier = <<>> \/ Trim(values.objectIdentifier) = <<>>)

\* form.handleSubmit(handleActualSubmit) on values that reach onSubmit
SubmitFormValid(values) ==
    /\ dataSourceFormSchema(values)
    /\ ~ObjectIdentifierMissing(values)
    /\ handleFormSubmit(values)
    /\ ViewerRerender
    /\ event' = [op |-> "handleFormSubmit"]
    /\ UNCHANGED isEditing

\* form.handleSubmit(handleActualSubmit) on values that the resolver or
\* handleActualSubmit rejects: field errors only
SubmitFormInvalid(values) ==
    /\ ~dataSourceFormSchema(values) \/ ObjectIdentifierMissing(values)
    /\ toasts' = <<>>
    /\ event' = [op |-> "formInvalid"]
    /\ UNCHANGED <<isLoading, generatedSchema, exampleQueriesMutations, error, activeTab,
                   lastFormValues, isEditing, editedSchemaContent, calls>>

----------------------------------------------------------------------------
\* Schema viewer: handlers

handleEdit ==
    /\ editedSchemaContent' =
         IF generatedSchema # NULL THEN Val(generatedSchema) ELSE editedSchemaContent
    /\ isEditing' = TRUE
    /\ toasts' = <<>>
    /\ event' = [op |-> "handleEdit"]
    /\ UNCHANGED <<isLoading, generatedSchema, exampleQueriesMutations, error, activeTab,
                   lastFormValues, calls>>

\* handleCancelEdit without setEditedSchemaContent(schema)
handleCancelEditKeepsDraft ==
    /\ isEditing' = FALSE
    /\ toasts' = <<>>
    /\ event' = [op |-> "handleCancelEdit"]
    /\ UNCHANGED <<isLoading, generatedSchema, exampleQueriesMutations, error, activeTab,
                   lastFormValues, calls, editedSchemaContent>>

handleCancelEdit ==
    /\ editedSchemaContent' =
         IF generatedSchema # NULL THEN Val(generatedSchema) ELSE editedSchemaContent
    /\ isEditing' = FALSE
    /\ toasts' = <<>>
    /\ event' = [op |-> "handleCancelEdit"]
    /\ UNCHANGED <<isLoading, generatedSchema, exampleQueriesMutations, error, activeTab,
                   lastFormValues, calls>>

\* Textarea onChange
onChange(value) ==
    /\ editedSchemaContent' = value
    /\ toasts' = <<>>
    /\ event' = [op |-> "onChange"]
    /\ UNCHANGED <<isLoading, generatedSchema, exampleQueriesMutations, error, activeTab,
                   lastFormValues, isEditing, calls>>

EmptySchemaToast ==
    Toast("destructive", "Cannot Save Empty Schema",
          "Please provide some schema content or cancel editing.")

\* The check without trim()
SaveRejectsEmptyOnly == editedSchemaContent = <<>>

\* handleSaveAndRegenerate: if (editedSchemaContent.trim() === "")
SaveRejectsBlank == Trim(editedSchemaContent) = <<>>

\* handleSaveAndRegenerate up to the point where it returns or is suspended
\* in the await of handleSchemaEditAndRegenerate
handleSaveAndRegenerate ==
    IF SaveRejectsBlank
      THEN /\ toasts' = <<EmptySchemaToast>>
           /\ event' = [op |-> "handleSaveAndRegenerate", outcome |-> "EmptySchema"]
           /\ UNCHANGED <<isLoading, generatedSchema, exampleQueriesMutations, error,
                          activeTab, lastFormValues, isEditing, editedSchemaContent, calls>>
    ELSE IF handleSchemaEditAndRegenerateRejects
      THEN /\ handleSchemaEditAndRegenerateMissingContext
           /\ isEditing' = FALSE
           /\ event' = [op |-> "handleSchemaEditAndRegenerate", outcome |-> "MissingContext"]
           /\ UNCHANGED editedSchemaContent
    ELSE   /\ handleSchemaEditAndRegenerate(editedSchemaContent)
           /\ ViewerRerender
           /\ event' = [op |-> "handleSchemaEditAndRegenerate", outcome |-> "issued"]
           /\ UNCHANGED isEditing

----------------------------------------------------------------------------
\* Page: Tabs onValueChange={setActiveTab}

SelectTab(tab) ==
    /\ tab # activeTab
    /\ activeTab' = tab
    /\ toasts' = <<>>
    /\ event' = [op |-> "setActiveTab"]
    /\ UNCHANGED <<isLoading, generatedSchema, exampleQueriesMutations, error,
                   lastFormValues, isEditing, editedSchemaContent, calls>>

----------------------------------------------------------------------------
\* The awaited call settles and the suspended handler runs to its end

SubmitResolved(i, behaviour) ==
    LET call == calls[i]
        outcome == generateGraphQLSchemaFlow(call.input, behaviour)
    IN  /\ call.handler = "handleFormSubmit"
        /\ outcome.kind = "resolve"
        /\ handleFormSubmitResolved(call, outcome.result)
        /\ ViewerRerender
        /\ UNCHANGED isEditing
        /\ calls' = Remove(calls, i)
        /\ event' = [op |-> "resolved", call |-> call, behaviour |-> behaviour]

\* The rejected call issued again by the catch block
SubmitRejectedRetries(i, behaviour) ==
    LET call == calls[i]
        outcome == generateGraphQLSchemaFlow(call.input, behaviour)
    IN  /\ call.handler = "handleFormSubmit"
        /\ outcome.kind = "reject"
        /\ handleFormSubmitRejected(call, outcome)
        /\ ViewerRerender
        /\ UNCHANGED isEditing
        /\ calls' = Append(Remove(calls, i), call)
        /\ event' = [op |-> "rejected", call |-> call, behaviour |-> behaviour]

SubmitRejected(i, behaviour) ==
    LET call == calls[i]
        outcome == generateGraphQLSchemaFlow(call.input, behaviour)
    IN  /\ call.handler = "handleFormSubmit"
        /\ outcome.kind = "reject"
        /\ handleFormSubmitRejected(call, outcome)
        /\ ViewerRerender
        /\ UNCHANGED isEditing
        /\ calls' = Remove(calls, i)
        /\ event' = [op |-> "rejected", call |-> call, behaviour |-> behaviour]

\* handleSaveAndRegenerate resumes after handleSchemaEditAndRegenerate and
\* calls setIsEditing(false)
RegenerateResolved(i, behaviour) ==
    LET call == calls[i]
        outcome == generateGraphQLSchemaFlow(call.input, behaviour)
    IN  /\ call.handler = "handleSchemaEditAndRegenerate"
        /\ outcome.kind = "resolve"
        /\ handleSchemaEditAndRegenerateResolved(call, outcome.result)
        /\ ViewerRerender
        /\ isEditing' = FALSE
        /\ calls' = Remove(calls, i)
        /\ event' = [op |-> "resolved", call |-> call, behaviour |-> behaviour]

\* setIsEditing(false) skipped when the awaited handler ran its catch block
RegenerateRejectedKeepsEditing(i, behaviour) ==
    LET call == calls[i]
        outcome == generateGraphQLSchemaFlow(call.input, behaviour)
    IN  /\ call.handler = "handleSchemaEditAndRegenerate"
        /\ outcome.kind = "reject"
        /\ handleSchemaEditAndRegenerateRejected(call, outcome)
        /\ ViewerRerender
        /\ UNCHANGED isEditing
        /\ calls' = Remove(calls, i)
        /\ event' = [op |-> "rejected", call |-> call, behaviour |-> behaviour]

RegenerateRejected(i, behaviour) ==
    LET call == calls[i]
        outcome == generateGraphQLSchemaFlow(call.input, behaviour)
    IN  /\ call.handler = "handleSchemaEditAndRegenerate"
        /\ outcome.kind = "reject"
        /\ handleSchemaEditAndRegenerateRejected(call, outcome)
        /\ ViewerRerender
        /\ isEditing' = FALSE
        /\ calls' = Remove(calls, i)
        /\ event' = [op |-> "rejected", call |-> call, behaviour |-> behaviour]

----------------------------------------------------------------------------
\* Views: which controls are rendered and enabled

\* <TabsContent value="schema"> holds the schema viewer
SchemaViewerShown == activeTab = "schema"

\* The Edit control offered whether or not a schema was generated
isEditingAllowedAlways == TRUE

\* page: isEditingAllowed={generatedSchema !== null}
isEditingAllowed == generatedSchema # NULL

\* The submit button without disabled={isLoading}
SubmitButtonAlwaysEnabled == TRUE

\* data-source form: <Button type="submit" disabled={isLoading}>
SubmitButtonEnabled == ~isLoading

\* schema viewer: {!isEditing && isEditingAllowed && <Button disabled={isLoading || error !== null}>}
EditButtonEnabled ==
    SchemaViewerShown /\ ~isEditing /\ isEditingAllowed /\ ~(isLoading \/ error # NULL)

\* schema viewer: {isEditing && <Button disabled={isLoading || editedSchemaContent.trim() === ""}>}
SaveButtonEnabled ==
    SchemaViewerShown /\ isEditing /\ ~(isLoading \/ Trim(editedSchemaContent) = <<>>)

\* schema viewer: {isEditing && <Button disabled={isLoading}>}
CancelButtonEnabled == SchemaViewerShown /\ isEditing /\ ~isLoading

\* schema viewer: renderCardContent returns the <Textarea disabled={isLoading}>
\* The textarea without disabled={isLoading}
TextareaEnabledWhileLoading == SchemaViewerShown /\ isEditing

TextareaEnabled == SchemaViewerShown /\ isEditing /\ ~isLoading

----------------------------------------------------------------------------
\* Schema viewer: what the card shows

StartsWith(s, c) == s # <<>> /\ s[1] = c

currentDisplaySchema == IF isEditing THEN Some(editedSchemaContent) ELSE generatedSchema

hasActualSchemaContent ==
    /\ currentDisplaySchema # NULL
    /\ Trim(Val(currentDisplaySchema)) # <<>>
    /\ ~StartsWith(Val(currentDisplaySchema), "#")

NeverGeneratedMessage == "Use the form to generate a schema."

\* renderCardContent: placeholderMessage
placeholderMessageByEmptiness ==
    IF hasActualSchemaContent
      THEN "Schema generated. Click 'View Schema' to display, 'Edit Schema' to modify, or 'Download' to save."
      ELSE NeverGeneratedMessage

placeholderMessage ==
    IF generatedSchema # NULL
      THEN IF hasActualSchemaContent
             THEN "Schema generated. Click 'View Schema' to display, 'Edit Schema' to modify, or 'Download' to save."
             ELSE "The AI returned an empty schema. Try adjusting your input or edit the schema manually."
      ELSE NeverGeneratedMessage

renderCardContent ==
    IF isLoading /\ ~isEditing THEN [kind |-> "loader"]
    ELSE IF error # NULL /\ ~isEditing THEN [kind |-> "error", message |-> Val(error)]
    ELSE IF isEditing THEN [kind |-> "textarea", value |-> editedSchemaContent]
    ELSE [kind |-> "placeholder", message |-> placeholderMessage]

\* schema viewer: {!isEditing && <Button disabled={isLoading || error !== null || !hasActualSchemaContent}>}
\* opens the dialog that shows currentDisplaySchema
ViewButtonEnabled ==
    SchemaViewerShown /\ ~isEditing /\ ~(isLoading \/ error # NULL \/ ~hasActualSchemaContent)

\* The Download button's disabled expression without error !== null
DownloadButtonEnabledDespiteError ==
    SchemaViewerShown /\ ~(isLoading \/ ~hasActualSchemaContent)

\* schema viewer: <Button onClick={handleDownload} disabled={isLoading || error !== null || !hasActualSchemaContent}>
DownloadButtonEnabled ==
    SchemaViewerShown /\ ~(isLoading \/ error # NULL \/ ~hasActualSchemaContent)


\* handleDownload when link creation or the click throws: the catch block
DownloadErrorToast ==
    Toast("destructive", "Download Error", "Could not initiate schema download.")

DownloadFailedToast ==
    Toast("destructive", "Download Failed", "No actual schema content to download.")

DownloadStartedToast ==
    Toast("default", "Download Started", "Your schema.graphql file is downloading.")

\* handleDownload; throws: creating the object URL or the link throws
handleDownload(throws) ==
    /\ IF ~hasActualSchemaContent
         THEN /\ toasts' = <<DownloadFailedToast>>
              /\ event' = [op |-> "handleDownload", file |-> NULL]
         ELSE IF throws
           THEN /\ toasts' = <<DownloadErrorToast>>
                /\ event' = [op |-> "handleDownload", file |-> NULL]
           ELSE /\ toasts' = <<DownloadStartedToast>>
                /\ event' = [op |-> "handleDownload",
                             file |-> Some([name |-> "schema.graphql",
                                            content |-> Val(currentDisplaySchema)])]
    /\ UNCHANGED <<isLoading, generatedSchema, exampleQueriesMutations, error, activeTab,
                   lastFormValues, isEditing, editedSchemaContent, calls>>

----------------------------------------------------------------------------
\* The page as the user drives it: only rendered, enabled controls act

ClickSubmitValid(values) == SubmitButtonEnabled /\ SubmitFormValid(values)
ClickSubmitInvalid(values) == SubmitButtonEnabled /\ SubmitFormInvalid(values)
ClickEdit == EditButtonEnabled /\ handleEdit
ClickCancel == CancelButtonEnabled /\ handleCancelEdit
ClickSave == SaveButtonEnabled /\ handleSaveAndRegenerate
TypeDraft(value) == TextareaEnabled /\ onChange(value)
ClickDownload(throws) == DownloadButtonEnabled /\ handleDownload(throws)

Settle(texts) ==
    \E i \in DOMAIN calls, behaviour \in PromptBehaviours(texts) :
        \/ SubmitResolved(i, behaviour)
        \/ SubmitRejected(i, behaviour)
        \/ RegenerateResolved(i, behaviour)
        \/ RegenerateRejected(i, behaviour)

Next ==
    \/ \E values \in FormValues : ClickSubmitValid(values)
    \/ \E values \in FormValues : ClickSubmitInvalid(values)
    \/ ClickEdit
    \/ ClickCancel
    \/ ClickSave
    \/ \E value \in Text : TypeDraft(value)
    \/ \E throws \in BOOLEAN : ClickDownload(throws)
    \/ \E tab \in {"schema", "explorer"} : SelectTab(tab)
    \/ Settle(Text)

Spec == Init /\ [][Next]_vars

----------------------------------------------------------------------------
\* The handlers invoked whether or not their control is rendered or enabled

NextUnguarded ==
    \/ \E values \in SampleFormValues : SubmitFormValid(values)
    \/ \E values \in SampleFormValues : SubmitFormInvalid(values)
    \/ handleEdit
    \/ handleCancelEdit
    \/ handleSaveAndRegenerate
    \/ \E value \in SampleTexts : onChange(value)
    \/ \E throws \in BOOLEAN : handleDownload(throws)
    \/ \E tab \in {"schema", "explorer"} : SelectTab(tab)
    \/ Settle(SampleTexts)

SpecUnguarded == Init /\ [][NextUnguarded]_vars

----------------------------------------------------------------------------
\* API examples card (ApiExplorerPlaceholder) as the page renders it

\* isLoading={isLoading && !generatedSchema}
explorerIsLoading == isLoading /\ ~Truthy(generatedSchema)

\* const canCopy = exampleCode !== null && exampleCode.trim() !== ""
\*                 && !exampleCode.startsWith("#") && !isLoading && !error
canCopy ==
    /\ exampleQueriesMutations # NULL
    /\ Trim(Val(exampleQueriesMutations)) # <<>>
    /\ ~StartsWith(Val(exampleQueriesMutations), "#")
    /\ ~explorerIsLoading
    /\ error = NULL

----------------------------------------------------------------------------
\* What the last step was

\* What the flow returned or threw for the call that settled in the last step
Outcome == generateGraphQLSchemaFlow(event.call.input, event.behaviour)

SubmitSucceeded == event.op = "resolved" /\ event.call.handler = "handleFormSubmit"
SubmitFailed == event.op = "rejected" /\ event.call.handler = "handleFormSubmit"
RegenerateSucceeded == event.op = "resolved" /\ event.call.handler = "handleSchemaEditAndRegenerate"
RegenerateFailed == event.op = "rejected" /\ event.call.handler = "handleSchemaEditAndRegenerate"

----------------------------------------------------------------------------
\* Properties

\* C1: a handleFormSubmit or handleSchemaEditAndRegenerate call made while
\* isLoading is true changes no session field and issues no gateway call.
C1_ReentrantCallIsNoOp ==
    [][ (isLoading /\ event'.op \in {"handleFormSubmit", "handleSchemaEditAndRegenerate"})
          => UNCHANGED <<session, calls>> ]_vars

\* C2: on the page driven through its enabled controls, at most one gateway
\* call is outstanding, and isLoading is true exactly while one is.
C2_SingleFlight ==
    /\ Len(calls) <= 1
    /\ isLoading <=> (Len(calls) = 1)

C2_Witness == isLoading /\ Len(calls) = 1 /\ calls[1].handler = "handleSchemaEditAndRegenerate"

\* C3: the response to a call that a later call has superseded is discarded:
\* the step in which it settles changes no session field.
C3_SupersededResponseDiscarded ==
    [][ (event'.op \in {"resolved", "rejected"} /\ event'.call.superseded)
          => UNCHANGED session ]_vars

\* C4: right after a submit whose gateway call failed, whatever the state
\* before, schema and examples are null, isLoading is false and error is set.
C4_FailedSubmit ==
    SubmitFailed =>
        /\ generatedSchema = NULL
        /\ exampleQueriesMutations = NULL
        /\ ~isLoading
        /\ error # NULL

\* a submit failed that was superseded by a regeneration still in flight
C4_Witness ==
    /\ SubmitFailed
    /\ event.call.superseded
    /\ Len(calls) = 1
    /\ calls[1].handler = "handleSchemaEditAndRegenerate"

\* The message the failure carries, or the generic text of the handler
FailureMessage ==
    IF Outcome.isError THEN Outcome.message
    ELSE IF event.call.handler = "handleFormSubmit"
      THEN "An unknown error occurred."
      ELSE "An unknown error occurred during regeneration."

C6_SuccessfulSubmit ==
    SubmitSucceeded =>
        LET result == Outcome.result
        IN  /\ generatedSchema # NULL
            /\ generatedSchema =
                 IF result.graphqlSchema = NULL THEN Some(<<>>) ELSE result.graphqlSchema
            /\ (exampleQueriesMutations # NULL) <=>
                 (/\ result.exampleQueriesMutations # NULL
                  /\ Trim(Val(result.exampleQueriesMutations)) # <<>>)

\* C7: right after a successful submit whose response has an empty schema
\* and no examples, isLoading is false, error is null, schema is "" and
\* examples is null; and whenever the card shows a placeholder, it shows the
\* never-generated one exactly when schema is null, so that the empty schema
\* gets a different one.
C7_EmptySchemaIsNotNull ==
    /\ (/\ SubmitSucceeded
        /\ Outcome.result.graphqlSchema = Some(<<>>)
        /\ event.behaviour.output[1].exampleQueriesMutations = NULL)
         => /\ ~isLoading
            /\ error = NULL
            /\ generatedSchema = Some(<<>>)
            /\ exampleQueriesMutations = NULL
    /\ renderCardContent.kind = "placeholder"
         => ((renderCardContent.message = NeverGeneratedMessage) <=> (generatedSchema = NULL))

C7_Witness ==
    /\ SubmitSucceeded
    /\ event.behaviour.output[1] = [graphqlSchema |-> Some(<<>>), exampleQueriesMutations |-> NULL]
    /\ renderCardContent =
         [kind |-> "placeholder",
          message |-> "The AI returned an empty schema. Try adjusting your input or edit the schema manually."]

\* C8: handleSchemaEditAndRegenerate called while lastFormValues is null
\* issues no gateway call and changes no session field; it reports the
\* missing context by a toast in the same step, not through error.
C8_MissingContext ==
    [][ (lastFormValues = NULL /\ event'.op = "handleSchemaEditAndRegenerate")
          => /\ UNCHANGED <<session, calls>>
             /\ toasts' = <<MissingContextToast>> ]_vars

C8_Witness ==
    /\ event = [op |-> "handleSchemaEditAndRegenerate", outcome |-> "MissingContext"]
    /\ toasts = <<MissingContextToast>>
    /\ lastFormValues = NULL
    /\ error = NULL
    /\ calls = <<>>

\* C9: Save & Regenerate on a draft that is empty or whitespace-only issues
\* no gateway call, changes none of isLoading, schema, examples and error,
\* and leaves editing mode as it was.
C9_EmptySchema ==
    [][ (/\ Trim(editedSchemaContent) = <<>>
         /\ event'.op \in {"handleSaveAndRegenerate", "handleSchemaEditAndRegenerate"})
          => UNCHANGED <<isLoading, generatedSchema, exampleQueriesMutations, error,
                         calls, isEditing>> ]_vars

\* a whitespace-only draft was refused while editing, with context present
C9_Witness ==
    /\ event = [op |-> "handleSaveAndRegenerate", outcome |-> "EmptySchema"]
    /\ isEditing
    /\ editedSchemaContent = <<" ">>
    /\ lastFormValues # NULL
    /\ ~isLoading

\* C10: right after a regenerateExamples(e) whose gateway call failed,
\* schema is still e, examples is null, isLoading is false and error is set.
C10_FailedRegenerateKeepsEdit ==
    RegenerateFailed =>
        /\ generatedSchema = event.call.input.editedSchema
        /\ exampleQueriesMutations = NULL
        /\ ~isLoading
        /\ error # NULL

C10_Witness ==
    /\ RegenerateFailed
    /\ generatedSchema = Some(<<"a">>)
    /\ error # NULL

\* The schema viewer puts the text on screen (the editor holds it) or has an
\* enabled control that leads to it (View Schema, Edit Schema, Download).
SchemaTextExposed(text) ==
    \/ renderCardContent = [kind |-> "textarea", value |-> text]
    \/ generatedSchema = Some(text) /\ (ViewButtonEnabled \/ EditButtonEnabled \/ DownloadButtonEnabled)

\* C11: right after a failed regenerateExamples(e), the schema viewer shows
\* e or offers an enabled control that exposes it.
C11_EditedTextStaysVisible ==
    RegenerateFailed => SchemaTextExposed(Val(event.call.input.editedSchema))

\* C12: when regenerateExamples is called with exactly the schema text that
\* is stored (the text a submit put there) and its gateway call settles,
\* schema is that same text, whatever the prompt returned as graphqlSchema.
C12_RoundTrip ==
    (/\ event.op \in {"resolved", "rejected"}
     /\ event.call.handler = "handleSchemaEditAndRegenerate"
     /\ event.call.unedited)
      => generatedSchema = event.call.input.editedSchema

\* the prompt returned a schema other than the one sent, and it was not taken
C12_Witness ==
    /\ RegenerateSucceeded
    /\ event.call.unedited
    /\ event.behaviour.output[1].graphqlSchema = Some(<<"#">>)
    /\ generatedSchema = Some(<<"a">>)

InFlight(handler) == {i \in DOMAIN calls : calls[i].handler = handler}

\* C14: in every state in which a regenerateExamples(e) call is in flight,
\* the page is loading (Generating), schema = e, examples = null and
\* error = null.
C14_RegenerateInFlight ==
    \A i \in InFlight("handleSchemaEditAndRegenerate") :
        /\ isLoading
        /\ generatedSchema = calls[i].input.editedSchema
        /\ exampleQueriesMutations = NULL
        /\ error = NULL

\* a regeneration is in flight with a text that differs from the schema stored before
C14_Witness ==
    \E i \in InFlight("handleSchemaEditAndRegenerate") :
        ~calls[i].unedited /\ generatedSchema = calls[i].input.editedSchema

\* C15: in every state in which a submit call is in flight, the page is
\* loading (Generating) and schema, examples and error are all null.
C15_SubmitInFlight ==
    \A i \in InFlight("handleFormSubmit") :
        /\ isLoading
        /\ generatedSchema = NULL
        /\ exampleQueriesMutations = NULL
        /\ error = NULL

\* a submit is in flight that was started while a schema was being edited,
\* so a previous result was there to clear
C15_Witness ==
    InFlight("handleFormSubmit") # {} /\ isEditing /\ generatedSchema = NULL

\* Idle, Generating, Ready, Failed as the page's fields determine them
Status ==
    IF isLoading THEN "Generating"
    ELSE IF error # NULL THEN "Failed"
    ELSE IF generatedSchema # NULL THEN "Ready"
    ELSE "Idle"

\* C16: in every reachable state, error is non-null only when the status is
\* Failed: never while a generation is loading, never in Idle or Ready.
C16_ErrorOnlyWhenFailed ==
    error # NULL => Status = "Failed"

\* a failed regeneration: error set, schema kept
C16_Witness ==
    error # NULL /\ Status = "Failed" /\ generatedSchema # NULL

\* C17: in every reachable state, schema = null implies examples = null.
C17_NoExamplesWithoutSchema ==
    generatedSchema = NULL => exampleQueriesMutations = NULL

\* a submit started while a schema was being edited has failed: schema and
\* examples are both null
C17_Witness ==
    /\ SubmitFailed
    /\ isEditing
    /\ generatedSchema = NULL
    /\ exampleQueriesMutations = NULL

\* C18: a step enters Ready only from Generating and by a resolved gateway
\* call, enters Failed only from Generating and by a rejected gateway call,
\* and once a submit has been started (lastFormValues is set) the status is
\* never Idle again.
C18_StatusTransitions ==
    [][/\ (Status # "Ready" /\ Status' = "Ready")
            => (Status = "Generating" /\ event'.op = "resolved")
       /\ (Status # "Failed" /\ Status' = "Failed")
            => (Status = "Generating" /\ event'.op = "rejected")
       /\ lastFormValues' # NULL => Status' # "Idle"]_vars

\* a failed submit: nothing stored, and still not Idle
C18_Witness ==
    /\ event.op = "rejected"
    /\ Status = "Failed"
    /\ generatedSchema = NULL
    /\ lastFormValues # NULL

IssuedBy(e) ==
    \/ e.op = "handleFormSubmit"
    \/ e.op = "handleSchemaEditAndRegenerate" /\ e.outcome = "issued"

\* C19: a step issues a gateway call only when it is an accepted submit or
\* regenerateExamples triggered by the user, and then exactly one; the
\* settling of a call, a failure included, issues none.
C19_NoAutomaticRetry ==
    [][/\ IssuedBy(event') => calls' = Issue(event'.op, calls'[Len(calls')].input)
       /\ ~IssuedBy(event') => Len(calls') <= Len(calls)
       /\ event'.op \in {"resolved", "rejected"} => Len(calls') = Len(calls) - 1]_vars

\* a call has failed and none is outstanding
C19_Witness ==
    event.op = "rejected" /\ calls = <<>> /\ ~isLoading /\ error # NULL

\* The class a completion summary announces
SummaryClass(description) ==
    CASE description = "GraphQL schema and example operations generated successfully."
           -> "both"
      [] description = "GraphQL schema generated. No example operations were provided for it."
           -> "schemaOnly"
      [] description = "Example operations generated, but the schema was empty. This is unexpected."
           -> "examplesOnly"
      [] description = "Schema is empty, but example operations were generated. This might indicate an issue."
           -> "examplesOnly"
      [] description = "The AI returned an empty schema. Try adjusting your input."
           -> "neither"
      [] description = "Process complete. The AI did not return a schema. Example operations cannot be generated without a schema."
           -> "neither"
      [] OTHER -> "none"

\* The class the returned texts belong to
ResultClass(result) ==
    IF NonBlank(result.graphqlSchema)
      THEN IF NonBlank(result.exampleQueriesMutations) THEN "both" ELSE "schemaOnly"
      ELSE IF NonBlank(result.exampleQueriesMutations) THEN "examplesOnly" ELSE "neither"

\* C20: a successful submit emits exactly one completion notification, and
\* the class its summary announces is the one given by whether the returned
\* schema is non-blank and whether the returned examples are non-blank; a
\* failed submit emits exactly one failure notification.
C20_SubmitNotification ==
    /\ SubmitSucceeded =>
          /\ Len(toasts) = 1
          /\ toasts[1].title = "Generation Complete"
          /\ SummaryClass(toasts[1].description) = ResultClass(Outcome.result)
    /\ SubmitFailed =>
          /\ Len(toasts) = 1
          /\ toasts[1].variant = "destructive"
          /\ toasts[1].title = "Schema Generation Failed"

\* C21: in every state, hasActualSchemaContent is true exactly when the
\* displayed schema is non-null and non-empty after trimming.
C21_NonTrivialIsNonBlank ==
    hasActualSchemaContent <=>
      (currentDisplaySchema # NULL /\ Trim(Val(currentDisplaySchema)) # <<>>)

\* the displayed schema is null, empty or whitespace-only
DisplayedSchemaBlank ==
    currentDisplaySchema = NULL \/ Trim(Val(currentDisplaySchema)) = <<>>

C23_EditingDisabledWhileGenerating ==
    [][isLoading =>
         /\ ~EditButtonEnabled /\ ~TextareaEnabled
         /\ ~SaveButtonEnabled /\ ~CancelButtonEnabled
         /\ event'.op \notin {"resolved", "rejected"}
               => UNCHANGED <<isEditing, editedSchemaContent>>]_vars

\* a step was taken while a regeneration is in flight with the editor open
C23_Witness ==
    /\ isLoading
    /\ isEditing
    /\ editedSchemaContent # <<>>
    /\ event.op = "setActiveTab"

\* The request a gateway call input was built from
RequestOf(input) ==
    [dataSourceType |-> input.dataSourceType,
     connectionString |-> input.connectionString,
     objectIdentifier |-> input.objectIdentifier]

\* C24: lastFormValues is null before the first step; a step that starts a submit sets
\* it to that submit's request, and every other step (the settling of a
\* submit, failed or not, and every regenerateExamples step) leaves it as
\* it is.
C24_LastRequest ==
    [][/\ event.op = "init" => lastFormValues = NULL
       /\ IF event'.op = "handleFormSubmit"
            THEN lastFormValues' = Some(RequestOf(calls'[Len(calls')].input))
            ELSE UNCHANGED lastFormValues]_vars

\* a submit has failed and its request is still the last request
C24_Witness ==
    /\ SubmitFailed
    /\ lastFormValues = Some(RequestOf(event.call.input))

\* The state a failed regeneration leaves: error set next to the kept schema
\* (a failed submit clears the schema)
AfterFailedRegenerate == ~isLoading /\ error # NULL /\ generatedSchema # NULL

\* C25: in the state a failed regenerateExamples leaves, with the schema
\* viewer shown, the editor is open or the Edit control is enabled, so that
\* a new regenerateExamples can be issued without a new submit.
C25_ReEditAfterFailure ==
    (AfterFailedRegenerate /\ SchemaViewerShown) => (isEditing \/ EditButtonEnabled)

\* C26: the gateway call a regenerateExamples(e) step issues carries the
\* dataSourceType, connectionString and objectIdentifier of lastFormValues
\* and editedSchema = e (the draft that was saved); the gateway call a
\* submit step issues carries no editedSchema.
C26_GatewayRequest ==
    [][LET input == calls'[Len(calls')].input
       IN  /\ event'.op = "handleFormSubmit" => input.editedSchema = NULL
           /\ (event'.op = "handleSchemaEditAndRegenerate" /\ event'.outcome = "issued")
                 => /\ Some(RequestOf(input)) = lastFormValues
                    /\ input.editedSchema = Some(editedSchemaContent)]_vars

\* a regeneration in flight for a request that has an objectIdentifier
C26_Witness ==
    \E i \in InFlight("handleSchemaEditAndRegenerate") :
        /\ calls[i].input.objectIdentifier = <<"a">>
        /\ Some(RequestOf(calls[i].input)) = lastFormValues
        /\ event.op = "handleSchemaEditAndRegenerate"

\* C27: for every gateway call that settled after the model answered: when
\* the model returned no output the flow threw an Error and the call was
\* rejected; otherwise the call resolved and the result's graphqlSchema is
\* the input's editedSchema when the input carries one, else the model's
\* graphqlSchema, else "".
C27_FlowResult ==
    (event.op \in {"resolved", "rejected"} /\ event.behaviour.kind = "output") =>
      IF event.behaviour.output = NULL
        THEN /\ event.op = "rejected"
             /\ Outcome.kind = "reject"
             /\ Outcome.isError
        ELSE LET e == event.call.input.editedSchema
                 g == Val(event.behaviour.output).graphqlSchema
             IN  /\ event.op = "resolved"
                 /\ Outcome.kind = "resolve"
                 /\ Outcome.result.graphqlSchema =
                      (IF e # NULL THEN e ELSE IF g # NULL THEN g ELSE Some(<<>>))

\* a submit whose model output had no graphqlSchema resolved with ""
C27_Witness ==
    /\ SubmitSucceeded
    /\ Val(event.behaviour.output).graphqlSchema = NULL
    /\ Outcome.result.graphqlSchema = Some(<<>>)

\* What C28 requires of a gateway request
RequestValid(input) ==
    /\ input.dataSourceType \in DATA_SOURCE_TYPES
    /\ input.connectionString # ""
    /\ input.dataSourceType # "Other" => Trim(input.objectIdentifier) # <<>>

\* C28: after every step, every outstanding gateway request has a
\* dataSourceType of the enumeration, a non-empty connectionString and,
\* unless the type is Other, a non-blank objectIdentifier (the form requires
\* the objectIdentifier for every type but Other); a form submission
\* rejected by the form changes no session field and issues no call.
C28_RequestsAreValid ==
    [][/\ \A i \in DOMAIN calls' : RequestValid(calls'[i].input)
       /\ \A t \in DATA_SOURCE_TYPES \ {"Other"} : isObjectIdentifierRequired(t)
       /\ event'.op = "formInvalid" => UNCHANGED <<session, calls>>]_vars

\* a request of type Other went out without an objectIdentifier
C28_Witness ==
    \E i \in DOMAIN calls :
        /\ calls[i].input.dataSourceType = "Other"
        /\ calls[i].input.objectIdentifier = <<>>
        /\ RequestValid(calls[i].input)

\* C29: in every state reachable through the views, a non-null schema
\* implies non-null lastFormValues, and no Save & Regenerate has been
\* rejected for missing context.
C29_SchemaImpliesLastRequest ==
    /\ generatedSchema # NULL => lastFormValues # NULL
    /\ ~(event.op = "handleSchemaEditAndRegenerate" /\ event.outcome = "MissingContext")

\* Save & Regenerate was accepted: the context was there
C29_Witness ==
    /\ event.op = "handleSchemaEditAndRegenerate"
    /\ event.outcome = "issued"
    /\ generatedSchema # NULL
    /\ lastFormValues # NULL

\* C30: right after the orchestrator call made by Save & Regenerate has
\* settled (the gateway call resolved, the gateway call rejected, or the
\* call was rejected for missing context), isEditing is false.
C30_EditingClosesOnSettle ==
    (\/ RegenerateSucceeded
     \/ RegenerateFailed
     \/ event.op = "handleSchemaEditAndRegenerate" /\ event.outcome = "MissingContext")
      => ~isEditing

\* the gateway call of a regeneration has failed and the editor is closed
C30_Witness ==
    RegenerateFailed /\ ~isEditing /\ error # NULL /\ editedSchemaContent # <<>>

\* C31: in every reachable state, isEditing implies a non-null schema.
C31_EditingImpliesSchema ==
    isEditing => generatedSchema # NULL

\* C32: a step that starts and ends with the editor open and is not the
\* user's typing leaves the draft unchanged.
C32_DraftChangesOnlyByTyping ==
    [][(isEditing /\ isEditing' /\ event'.op # "onChange")
         => UNCHANGED editedSchemaContent]_vars

\* C33: right after the gateway call of a submit or of a regenerateExamples
\* has settled, isLoading is false and the status is Ready when the call
\* resolved and Failed when it rejected.
C33_SettleLeavesGenerating ==
    /\ event.op = "resolved" => (~isLoading /\ Status = "Ready")
    /\ event.op = "rejected" => (~isLoading /\ Status = "Failed")

\* a submit has resolved with an empty schema and the page is Ready
C33_Witness ==
    SubmitSucceeded /\ ~isLoading /\ Status = "Ready" /\ generatedSchema = Some(<<>>)

\* C34: a Cancel step issues no gateway call, changes none of isLoading,
\* schema, examples, error and lastFormValues, closes the editor and, when
\* the schema is non-null, sets the draft to the stored schema.
C34_Cancel ==
    [][event'.op = "handleCancelEdit" =>
         /\ UNCHANGED <<session, calls>>
         /\ ~isEditing'
         /\ generatedSchema # NULL => editedSchemaContent' = Val(generatedSchema)]_vars

\* the editor was cancelled on a stored schema
C34_Witness ==
    /\ event.op = "handleCancelEdit"
    /\ ~isEditing
    /\ generatedSchema = Some(<<"a">>)
    /\ editedSchemaContent = <<"a">>

\* C35: in every state, the Copy control of the examples card is enabled
\* exactly when the card is not loading, error is null and examples is
\* non-null and non-blank after trimming.
C35_CopyEnabled ==
    canCopy <=>
      /\ ~explorerIsLoading
      /\ error = NULL
      /\ exampleQueriesMutations # NULL
      /\ Trim(Val(exampleQueriesMutations)) # <<>>

\* C36: right after a gateway call has settled, the active tab is: after a
\* resolved submit, the examples tab if the returned examples are non-blank
\* after trimming and the schema tab otherwise; after a rejected submit, the
\* schema tab; after a regenerateExamples call, resolved or rejected, the
\* examples tab.
C36_ActiveTab ==
    /\ SubmitSucceeded =>
          activeTab = (IF NonBlank(Outcome.result.exampleQueriesMutations)
                         THEN "explorer" ELSE "schema")
    /\ SubmitFailed => activeTab = "schema"
    /\ (RegenerateSucceeded \/ RegenerateFailed) => activeTab = "explorer"

\* a regeneration started on the schema tab has failed and the examples tab is shown
C36_Witness ==
    RegenerateFailed /\ activeTab = "explorer" /\ exampleQueriesMutations = NULL

====
